---- MODULE Spec2Model ----
(***************************************************************************)
(* Model of the inference service of src/src/serve.py: the FastAPI app     *)
(* built by create_app with its three routes (/ping, /infer, /explain) and *)
(* the RequestValidationError handler.                                     *)
(*                                                                         *)
(* Every handler is an `async def` coroutine run by one event-loop thread. *)
(* A coroutine keeps the thread from the moment it is resumed until it     *)
(* awaits or finishes; `running` is the request whose coroutine holds the  *)
(* thread.  The only await in the handlers is the one on                   *)
(* transform_req_data_and_make_predictions (lines 79 and 113).             *)
(*                                                                         *)
(* The collaborators imported from serve_utils, logger, xai.explainer and  *)
(* data_models are not part of the source file; their results are modelled *)
(* from their documented contracts (a call returns or raises, the logger   *)
(* never raises, identifiers are unique).                                  *)
(***************************************************************************)
EXTENDS Integers, Sequences, FiniteSets, TLC

\* ---------------------------------------------------------------- bounds
NumReqs == 2          \* number of requests sent to the service
MaxInstances == 1     \* instances per request body

Reqs == 1..NumReqs
NoReq == 0
NoId == 0             \* request_id is not bound yet

\* ------------------------------------------------------------ request data
Missing == -1         \* a required field that is absent from an instance
FieldValues == {0, 1}

RECURSIVE SeqsUpTo(_, _)
SeqsUpTo(S, n) ==
    IF n = 0 THEN {<< >>}
    ELSE LET shorter == SeqsUpTo(S, n - 1)
         IN  shorter \cup {Append(s, x) : s \in {t \in shorter : Len(t) = n - 1}, x \in S}

Bodies == SeqsUpTo(FieldValues \cup {Missing}, MaxInstances) \ {<< >>}

Endpoints == {"ping", "infer", "explain"}

\* Boundary validation against the schema-derived request model: every
\* instance carries its required field.
IsValidBody(b) == \A i \in 1..Len(b) : b[i] \in FieldValues

\* Request Transformer: categorical encoding of each instance, order kept.
Transform(b) == [i \in 1..Len(b) |-> 2 * b[i] + 1]

\* Predictor Adapter: one class per instance, deterministic.
Predict(f) == [i \in 1..Len(f) |-> IF f[i] >= 3 THEN 1 ELSE 0]

\* Explainer Adapter: one attribution row per row of the features.
Explanations(f) == [i \in 1..Len(f) |-> f[i] + 10]

\* The predictions response built by transform_req_data_and_make_predictions
\* for the request id it was handed.
PredictionsResponse(id, b) ==
    [requestId |-> id, predictions |-> Predict(Transform(b)),
     explanations |-> << >>, merged |-> FALSE]

NoPredictionsResponse ==
    [requestId |-> NoId, predictions |-> << >>, explanations |-> << >>, merged |-> FALSE]

\* combine_predictions_response_with_explanations
CombinedResponse(p, e) ==
    [requestId |-> p.requestId, predictions |-> p.predictions,
     explanations |-> e, merged |-> TRUE]

\* ------------------------------------------------------------------ state
VARIABLES
    pc,                   \* position of each request's coroutine
    endpoint,             \* route of the request
    body,                 \* request body
    running,              \* request whose coroutine holds the event-loop thread
    nextId,               \* source of generate_unique_request_id
    request_id,           \* local variable request_id of the handler
    transformed_data,     \* local variable transformed_data
    predictions_response, \* local variable predictions_response
    explanations,         \* local variable explanations
    exc,                  \* exception caught by the handler's except clause
    tpCalls,              \* calls of transform_req_data_and_make_predictions
    tpArgId,              \* request id handed to that call
    explainCalls,         \* calls of get_explanations_from_explainer
    explainArg,           \* instances_df handed to the explainer
    combineCalls,         \* calls of combine_predictions_response_with_explanations
    infoLog,              \* logger.info calls made for the request
    reports,              \* error reports written for the request, in order
    sink,                 \* condition of the log sinks
    resp,                 \* response sent to the caller
    infoLost,             \* some logger.info write of the request was lost
    stages                \* stages the request has passed, in order

vars == <<pc, endpoint, body, running, nextId, request_id, transformed_data,
          predictions_response, explanations, exc, tpCalls, tpArgId,
          explainCalls, explainArg, combineCalls, infoLog, reports, sink, resp,
          infoLost, stages>>

NoDetail == [op |-> "none", requestId |-> NoId, error |-> "none"]
NoResp ==
    [status |-> 0, kind |-> "none", content |-> NoPredictionsResponse,
     detail |-> NoDetail]

Init ==
    /\ pc = [r \in Reqs |-> "idle"]
    /\ endpoint = [r \in Reqs |-> "none"]
    /\ body = [r \in Reqs |-> << >>]
    /\ running = NoReq
    /\ nextId = 1
    /\ request_id = [r \in Reqs |-> NoId]
    /\ transformed_data = [r \in Reqs |-> << >>]
    /\ predictions_response = [r \in Reqs |-> NoPredictionsResponse]
    /\ explanations = [r \in Reqs |-> << >>]
    /\ exc = [r \in Reqs |-> "none"]
    /\ tpCalls = [r \in Reqs |-> 0]
    /\ tpArgId = [r \in Reqs |-> NoId]
    /\ explainCalls = [r \in Reqs |-> 0]
    /\ explainArg = [r \in Reqs |-> << >>]
    /\ combineCalls = [r \in Reqs |-> 0]
    /\ infoLog = [r \in Reqs |-> 0]
    /\ reports = [r \in Reqs |-> << >>]
    /\ sink \in {"ok", "failing"}
    /\ resp = [r \in Reqs |-> NoResp]
    /\ infoLost = [r \in Reqs |-> FALSE]
    /\ stages = [r \in Reqs |-> << >>]

\* A client sends a request; it waits for the event loop.
Receive(r) ==
    /\ pc[r] = "idle"
    /\ \E e \in Endpoints, b \in Bodies :
         /\ endpoint' = [endpoint EXCEPT ![r] = e]
         /\ body' = [body EXCEPT ![r] = IF e = "ping" THEN << >> ELSE b]
    /\ pc' = [pc EXCEPT ![r] = "received"]
    /\ stages' = [stages EXCEPT ![r] = <<"RECEIVED">>]
    /\ UNCHANGED <<running, nextId, request_id, transformed_data,
                   predictions_response, explanations, exc, tpCalls, tpArgId,
                   explainCalls, explainArg, combineCalls, infoLog, reports,
                   sink, resp, infoLost>>

\* ---------------------------------------------------------------- logging
\* Variant: a write that cannot reach its sink raises out of the reporter.
ReporterPropagates == TRUE

\* Logger and Error Reporter contract: a write that cannot reach its sink is
\* dropped; the call returns normally.
ReporterRaises == FALSE

WriteOutcome == IF sink = "ok" THEN "written" ELSE "lost"

\* Variant: logger.info raises when its write cannot reach the sink.
InfoLogPropagates == TRUE

\* Logger contract for info(msg): append-only, nothing relied upon by the
\* pipeline; a write that cannot reach its sink is dropped.
InfoLogRaises == FALSE

InfoRaisesNow == InfoLogRaises /\ sink = "failing"

\* n logger.info calls made by request r in the current state of the sinks.
LogInfo(r, n) ==
    /\ infoLog' = [infoLog EXCEPT ![r] = @ + n]
    /\ infoLost' = [infoLost EXCEPT ![r] = @ \/ (sink = "failing")]

Passed(r, sts) == stages' = [stages EXCEPT ![r] = @ \o sts]

OpName(e) == IF e = "infer" THEN "inference" ELSE "explanations"

\* Variant: the identifier is read from process-wide state (the last one
\* generated) instead of the coroutine's local.
LastGeneratedId(r) == nextId - 1

\* request_id as the handler reads it: a local of the coroutine.
HandlerRequestId(r) == request_id[r]

\* Variant: the message does not mention the request.
ErrMsgWithoutId(r) == [op |-> OpName(endpoint[r]), requestId |-> NoId]

\* err_msg of the except clause (lines 84 and 130).
ErrMsg(r) == [op |-> OpName(endpoint[r]), requestId |-> HandlerRequestId(r)]

Report(sk, r, msg, error) ==
    [sink |-> sk, op |-> msg.op, requestId |-> msg.requestId,
     error |-> error, outcome |-> WriteOutcome]

\* logger.error(...) followed by log_error(...): general log, then error file.
ErrorReports(r, msg, error) ==
    <<Report("general", r, msg, error), Report("error_file", r, msg, error)>>

\* -------------------------------------------------------------- responses
\* Variant: the health probe answers according to the state of the sinks.
PingResponseChecked ==
    IF sink = "ok" THEN [NoResp EXCEPT !.status = 200, !.kind = "pong"]
    ELSE [NoResp EXCEPT !.status = 500, !.kind = "server_error"]

PingResponse == [NoResp EXCEPT !.status = 200, !.kind = "pong"]

\* Variant: the framework's default status for a validation error.
ValidationResponseDefault(r) ==
    [NoResp EXCEPT !.status = 422, !.kind = "validation_error",
                   !.detail = [op |-> "validation", requestId |-> NoId,
                               error |-> "RequestValidationError"]]

\* JSONResponse(status_code=400, content={status: error, message, predictions: None})
ValidationResponse(r) ==
    [NoResp EXCEPT !.status = 400, !.kind = "validation_error",
                   !.detail = [op |-> "validation", requestId |-> NoId,
                               error |-> "RequestValidationError"]]

\* Variant: the rows of the request identified just before are kept in a
\* process-wide list and returned again with the next response.
PreviousRows(r) ==
    LET prev == {q \in Reqs : request_id[q] # NoId
                              /\ request_id[q] = request_id[r] - 1}
    IN  IF prev = {} THEN << >>
        ELSE predictions_response[CHOOSE q \in prev : TRUE].predictions

StatefulSuccessResponse(r) ==
    [NoResp EXCEPT !.status = 200, !.kind = "json",
                   !.content = [predictions_response[r] EXCEPT
                                  !.predictions = PreviousRows(r) \o @]]

\* return predictions_response
SuccessResponse(r) ==
    [NoResp EXCEPT !.status = 200, !.kind = "json",
                   !.content = predictions_response[r]]

\* Variant: a failure after prediction answers with what was computed so far.
DegradedResponse(r) ==
    IF predictions_response[r].requestId # NoId
    THEN [NoResp EXCEPT !.status = 200, !.kind = "json",
                        !.content = predictions_response[r]]
    ELSE [NoResp EXCEPT !.status = 500, !.kind = "http_exception",
                        !.detail = [op |-> OpName(endpoint[r]),
                                    requestId |-> request_id[r],
                                    error |-> exc[r]]]

\* raise HTTPException(status_code=500, detail=f"{err_msg} Error: {str(exc)}")
FailureResponse(r) ==
    [NoResp EXCEPT !.status = 500, !.kind = "http_exception",
                   !.detail = [op |-> ErrMsg(r).op,
                               requestId |-> ErrMsg(r).requestId,
                               error |-> exc[r]]]

\* An exception that leaves the handler: the server answers with a bare 500.
ServerErrorResponse == [NoResp EXCEPT !.status = 500, !.kind = "server_error"]

\* ----------------------------------------------------------------- routes
Free == running = NoReq
Holds(r) == running = r

\* GET /ping (lines 24-32): one logger.info, then the fixed answer.  The
\* handler has no try block: an exception of the logger would leave it.
ping(r) ==
    /\ pc[r] = "received" /\ endpoint[r] = "ping" /\ Free
    /\ LogInfo(r, 1)
    /\ IF InfoRaisesNow
       THEN /\ resp' = [resp EXCEPT ![r] = ServerErrorResponse]
            /\ pc' = [pc EXCEPT ![r] = "failed"]
            /\ Passed(r, <<"FAILED">>)
       ELSE /\ resp' = [resp EXCEPT ![r] = PingResponse]
            /\ pc' = [pc EXCEPT ![r] = "responded"]
            /\ Passed(r, <<"RESPONDED">>)
    /\ UNCHANGED <<endpoint, body, running, nextId, request_id,
                   transformed_data, predictions_response, explanations, exc,
                   tpCalls, tpArgId, explainCalls, explainArg, combineCalls,
                   reports, sink>>

\* The body fails boundary validation: validation_exception_handler (35-54).
validation_exception_handler(r) ==
    /\ pc[r] = "received" /\ endpoint[r] \in {"infer", "explain"} /\ Free
    /\ ~IsValidBody(body[r])
    /\ IF ReporterRaises /\ sink = "failing"
       THEN /\ resp' = [resp EXCEPT ![r] = ServerErrorResponse]
            /\ reports' = [reports EXCEPT ![r] =
                  <<Report("general", r, [op |-> "validation", requestId |-> NoId],
                           "RequestValidationError")>>]
       ELSE /\ reports' = [reports EXCEPT ![r] =
                  ErrorReports(r, [op |-> "validation", requestId |-> NoId],
                               "RequestValidationError")]
            /\ resp' = [resp EXCEPT ![r] = ValidationResponse(r)]
    /\ pc' = [pc EXCEPT ![r] = "rejected"]
    /\ Passed(r, <<"FAILED">>)
    /\ UNCHANGED <<endpoint, body, running, nextId, request_id,
                   transformed_data, predictions_response, explanations, exc,
                   tpCalls, tpArgId, explainCalls, explainArg, combineCalls,
                   infoLog, sink, infoLost>>

\* Variant: a failed call is attempted a second time.
RetryOnRaise(r) ==
    IF request_id[r] # NoId /\ tpCalls[r] < 2 THEN "identified" ELSE "except"

\* Variant: an exception of the explainer is swallowed and the handler goes on.
ContinueOnExplainerRaise(r) ==
    IF pc[r] = "explaining" THEN "explained" ELSE "except"

\* Where control goes when a call inside the try block raises.
OnRaise(r) == "except"

\* A logger.info call inside the try block raises.
InfoRaise(r) ==
    /\ LogInfo(r, 1)
    /\ exc' = [exc EXCEPT ![r] = "LogError"]
    /\ pc' = [pc EXCEPT ![r] = OnRaise(r)]
    /\ Passed(r, <<"FAILED">>)
    /\ running' = r
    /\ UNCHANGED <<endpoint, body, nextId, request_id, transformed_data,
                   predictions_response, explanations, tpCalls, tpArgId,
                   explainCalls, explainArg, combineCalls, reports, sink, resp>>

\* request_id = generate_unique_request_id() (lines 76 and 109).
Identify(r) ==
    /\ pc[r] = "received" /\ endpoint[r] \in {"infer", "explain"} /\ Free
    /\ IsValidBody(body[r])
    /\ running' = r
    /\ \/ /\ request_id' = [request_id EXCEPT ![r] = nextId]
          /\ nextId' = nextId + 1
          /\ pc' = [pc EXCEPT ![r] = "identified"]
          /\ Passed(r, <<"IDENTIFIED">>)
          /\ UNCHANGED exc
       \/ /\ exc' = [exc EXCEPT ![r] = "IdentifierError"]
          /\ pc' = [pc EXCEPT ![r] = OnRaise(r)]
          /\ Passed(r, <<"FAILED">>)
          /\ UNCHANGED <<request_id, nextId>>
    /\ UNCHANGED <<endpoint, body, transformed_data, predictions_response,
                   explanations, tpCalls, tpArgId, explainCalls, explainArg,
                   combineCalls, infoLog, reports, sink, resp, infoLost>>

\* Variant: the handler waits for the call without giving up the thread.
BlockingWait(r) == r

\* Holder of the event-loop thread while the handler awaits (lines 79, 113).
LoopHolderWhileAwaiting(r) == NoReq

\* Two logger.info calls, then the call of
\* transform_req_data_and_make_predictions; the handler awaits it and the
\* event loop is free for other coroutines (lines 77-80 and 110-114).
CallTransformPredict(r) ==
    /\ pc[r] = "identified" /\ Holds(r)
    /\ IF InfoRaisesNow THEN InfoRaise(r) ELSE
       /\ LogInfo(r, 2)
       /\ tpCalls' = [tpCalls EXCEPT ![r] = @ + 1]
       /\ tpArgId' = [tpArgId EXCEPT ![r] = HandlerRequestId(r)]
       /\ pc' = [pc EXCEPT ![r] = "awaiting"]
       /\ running' = LoopHolderWhileAwaiting(r)
       /\ UNCHANGED <<endpoint, body, nextId, request_id, transformed_data,
                      predictions_response, explanations, exc, explainCalls,
                      explainArg, combineCalls, reports, sink, resp, stages>>

\* The awaited call returns its pair, or raises (the transformer, or after
\* it the predictor); the coroutine is resumed.
TransformPredictReturn(r) ==
    /\ pc[r] = "awaiting" /\ Free
    /\ running' = r
    /\ \/ /\ transformed_data' = [transformed_data EXCEPT ![r] = Transform(body[r])]
          /\ predictions_response' = [predictions_response EXCEPT ![r] =
                                        PredictionsResponse(tpArgId[r], body[r])]
          /\ pc' = [pc EXCEPT ![r] = "predicted"]
          /\ Passed(r, <<"TRANSFORMED", "PREDICTED">>)
          /\ UNCHANGED exc
       \/ /\ exc' = [exc EXCEPT ![r] = "TransformError"]
          /\ pc' = [pc EXCEPT ![r] = OnRaise(r)]
          /\ Passed(r, <<"FAILED">>)
          /\ UNCHANGED <<transformed_data, predictions_response>>
       \/ /\ exc' = [exc EXCEPT ![r] = "PredictionError"]
          /\ pc' = [pc EXCEPT ![r] = OnRaise(r)]
          /\ Passed(r, <<"TRANSFORMED", "FAILED">>)
          /\ UNCHANGED <<transformed_data, predictions_response>>
    /\ UNCHANGED <<endpoint, body, nextId, request_id, explanations, tpCalls,
                   tpArgId, explainCalls, explainArg, combineCalls, infoLog,
                   reports, sink, resp, infoLost>>

\* Variant: every prediction route may return right after the prediction.
AnyRouteReturnsAfterPrediction(r) == endpoint[r] \in {"infer", "explain"}

\* The routes that return the predictions response as it is (lines 81-82).
ReturnsAfterPrediction(r) == endpoint[r] = "infer"

\* /infer: logger.info("Returning predictions..."); return (lines 81-82).
\* The response is the predictions response unchanged.
InferReturn(r) ==
    /\ pc[r] = "predicted" /\ ReturnsAfterPrediction(r) /\ Holds(r)
    /\ IF InfoRaisesNow THEN InfoRaise(r) ELSE
       /\ LogInfo(r, 1)
       /\ resp' = [resp EXCEPT ![r] = SuccessResponse(r)]
       /\ pc' = [pc EXCEPT ![r] = "responded"]
       /\ Passed(r, <<"COMPOSED", "RESPONDED">>)
       /\ running' = NoReq
       /\ UNCHANGED <<endpoint, body, nextId, request_id, transformed_data,
                      predictions_response, explanations, exc, tpCalls,
                      tpArgId, explainCalls, explainArg, combineCalls,
                      reports, sink>>

\* Variant: both prediction routes compute explanations.
EveryRouteRunsExplainer(r) == endpoint[r] \in {"infer", "explain"}

\* The routes whose handler calls the explainer.
RunsExplainer(r) == endpoint[r] = "explain"

\* Variant: the explainer is handed the request as received.
RawInstances(r) == body[r]

\* instances_df argument of get_explanations_from_explainer (line 117).
ExplainerInstances(r) == transformed_data[r]

\* /explain: logger.info, then the plain (not awaited) call of
\* get_explanations_from_explainer: the coroutine keeps the event-loop
\* thread while the explainer runs (lines 115-121).
ExplainCall(r) ==
    /\ pc[r] = "predicted" /\ RunsExplainer(r) /\ Holds(r)
    /\ IF InfoRaisesNow THEN InfoRaise(r) ELSE
       /\ LogInfo(r, 1)
       /\ explainCalls' = [explainCalls EXCEPT ![r] = @ + 1]
       /\ explainArg' = [explainArg EXCEPT ![r] = ExplainerInstances(r)]
       /\ pc' = [pc EXCEPT ![r] = "explaining"]
       /\ UNCHANGED <<endpoint, body, running, nextId, request_id,
                      transformed_data, predictions_response, explanations,
                      exc, tpCalls, tpArgId, combineCalls, reports, sink,
                      resp, stages>>

\* The explainer returns the explanations, or raises.
ExplainReturn(r) ==
    /\ pc[r] = "explaining" /\ Holds(r)
    /\ \/ /\ explanations' = [explanations EXCEPT ![r] = Explanations(explainArg[r])]
          /\ pc' = [pc EXCEPT ![r] = "explained"]
          /\ Passed(r, <<"EXPLAINED">>)
          /\ UNCHANGED exc
       \/ /\ exc' = [exc EXCEPT ![r] = "ExplanationError"]
          /\ pc' = [pc EXCEPT ![r] = OnRaise(r)]
          /\ Passed(r, <<"FAILED">>)
          /\ UNCHANGED explanations
    /\ UNCHANGED <<endpoint, body, running, nextId, request_id,
                   transformed_data, predictions_response, tpCalls, tpArgId,
                   explainCalls, explainArg, combineCalls, infoLog, reports,
                   sink, resp, infoLost>>

\* logger.info, then combine_predictions_response_with_explanations, which
\* returns the merged response or raises (lines 122-126).
Combine(r) ==
    /\ pc[r] = "explained" /\ Holds(r)
    /\ IF InfoRaisesNow THEN InfoRaise(r) ELSE
       /\ LogInfo(r, 1)
       /\ combineCalls' = [combineCalls EXCEPT ![r] = @ + 1]
       /\ \/ /\ predictions_response' = [predictions_response EXCEPT ![r] =
                    CombinedResponse(predictions_response[r], explanations[r])]
             /\ pc' = [pc EXCEPT ![r] = "composed"]
             /\ Passed(r, <<"COMPOSED">>)
             /\ UNCHANGED exc
          \/ /\ exc' = [exc EXCEPT ![r] = "CombineError"]
             /\ pc' = [pc EXCEPT ![r] = OnRaise(r)]
             /\ Passed(r, <<"FAILED">>)
             /\ UNCHANGED predictions_response
       /\ UNCHANGED <<endpoint, body, running, nextId, request_id,
                      transformed_data, explanations, tpCalls, tpArgId,
                      explainCalls, explainArg, reports, sink, resp>>

\* /explain: logger.info("Returning explanations response..."); return
\* (lines 127-128).
ExplainRouteReturn(r) ==
    /\ pc[r] = "composed" /\ Holds(r)
    /\ IF InfoRaisesNow THEN InfoRaise(r) ELSE
       /\ LogInfo(r, 1)
       /\ resp' = [resp EXCEPT ![r] = SuccessResponse(r)]
       /\ pc' = [pc EXCEPT ![r] = "responded"]
       /\ Passed(r, <<"RESPONDED">>)
       /\ running' = NoReq
       /\ UNCHANGED <<endpoint, body, nextId, request_id, transformed_data,
                      predictions_response, explanations, exc, tpCalls,
                      tpArgId, explainCalls, explainArg, combineCalls,
                      reports, sink>>

\* except Exception as exc (lines 83-90 and 129-135).  Building err_msg reads
\* request_id; when generate_unique_request_id raised, request_id was never
\* bound, the read raises UnboundLocalError inside the except clause and
\* that exception leaves the handler: nothing is reported and no
\* HTTPException is raised.
ExceptClause(r) ==
    /\ pc[r] = "except" /\ Holds(r)
    /\ IF request_id[r] = NoId
       THEN /\ resp' = [resp EXCEPT ![r] = ServerErrorResponse]
            /\ UNCHANGED reports
       ELSE IF ReporterRaises /\ sink = "failing"
       THEN /\ resp' = [resp EXCEPT ![r] = ServerErrorResponse]
            /\ reports' = [reports EXCEPT ![r] =
                              <<Report("general", r, ErrMsg(r), exc[r])>>]
       ELSE /\ reports' = [reports EXCEPT ![r] = ErrorReports(r, ErrMsg(r), exc[r])]
            /\ resp' = [resp EXCEPT ![r] = FailureResponse(r)]
    /\ pc' = [pc EXCEPT ![r] = "failed"]
    /\ running' = NoReq
    /\ UNCHANGED <<endpoint, body, nextId, request_id, transformed_data,
                   predictions_response, explanations, exc, tpCalls, tpArgId,
                   explainCalls, explainArg, combineCalls, infoLog, sink,
                   infoLost, stages>>

\* The log sinks become unwritable (disk full, file removed) and stay so.
SinkChange ==
    /\ sink = "ok"
    /\ sink' = "failing"
    /\ UNCHANGED <<pc, endpoint, body, running, nextId, request_id,
                   transformed_data, predictions_response, explanations, exc,
                   tpCalls, tpArgId, explainCalls, explainArg, combineCalls,
                   infoLog, reports, resp, infoLost, stages>>

Next ==
    \/ \E r \in Reqs : Receive(r)
    \/ \E r \in Reqs : ping(r)
    \/ \E r \in Reqs : validation_exception_handler(r)
    \/ \E r \in Reqs : Identify(r)
    \/ \E r \in Reqs : CallTransformPredict(r)
    \/ \E r \in Reqs : TransformPredictReturn(r)
    \/ \E r \in Reqs : InferReturn(r)
    \/ \E r \in Reqs : ExplainCall(r)
    \/ \E r \in Reqs : ExplainReturn(r)
    \/ \E r \in Reqs : Combine(r)
    \/ \E r \in Reqs : ExplainRouteReturn(r)
    \/ \E r \in Reqs : ExceptClause(r)
    \/ SinkChange

Spec == Init /\ [][Next]_vars

\* Every step of the coroutine of request r, and of the calls it waits for.
Step(r) ==
    \/ ping(r)
    \/ validation_exception_handler(r)
    \/ Identify(r)
    \/ CallTransformPredict(r)
    \/ TransformPredictReturn(r)
    \/ InferReturn(r)
    \/ ExplainCall(r)
    \/ ExplainReturn(r)
    \/ Combine(r)
    \/ ExplainRouteReturn(r)
    \/ ExceptClause(r)

\* The service with the condition of the sinks fixed from the start: the
\* requests and their steps, without SinkChange.
FairNext ==
    \/ \E r \in Reqs : Receive(r)
    \/ \E r \in Reqs : Step(r)

\* The event loop runs every coroutine that is ready, and every call a
\* coroutine waits for returns or raises.
FairSpec == Init /\ [][FairNext]_vars /\ \A r \in Reqs : WF_vars(Step(r))

\* ================================================================ claims
Terminal == {"responded", "failed", "rejected"}
PipelineErrors ==
    {"IdentifierError", "TransformError", "PredictionError",
     "ExplanationError", "CombineError"}

ReportedTo(r, id, error) ==
    /\ Len(reports[r]) = 2
    /\ reports[r][1].sink = "general"
    /\ reports[r][2].sink = "error_file"
    /\ \A i \in 1..2 : reports[r][i].requestId = id /\ reports[r][i].error = error

\* C1: whichever stage of /infer or /explain raises (identification,
\* transform/predict, explanation, composition), the request ends FAILED, the
\* failure is reported to the Error Reporter tagged with the request's
\* requestId, and the caller receives an HTTP 500 whose detail carries the
\* error message.
C1_EveryStageFailureReported ==
    \A r \in Reqs :
        (pc[r] = "failed") =>
            /\ resp[r].status = 500
            /\ resp[r].kind = "http_exception"
            /\ resp[r].detail.error = exc[r]
            /\ ReportedTo(r, request_id[r], exc[r])

\* C2: an /explain request that reached its handler is answered either with
\* a 200 whose body is the combined predictions-plus-explanations response or
\* with a 500 without predictions body (a rejected body: 400 without
\* predictions); predictions alone are never returned.
C2_NoPartialResponse ==
    \A r \in Reqs :
        (endpoint[r] = "explain" /\ pc[r] \in Terminal) =>
            \/ /\ pc[r] = "responded"
               /\ resp[r].status = 200
               /\ resp[r].content.merged
               /\ resp[r].content =
                    CombinedResponse(PredictionsResponse(request_id[r], body[r]),
                                     Explanations(Transform(body[r])))
            \/ /\ pc[r] = "failed"
               /\ resp[r].status = 500
               /\ resp[r].content = NoPredictionsResponse
            \/ /\ pc[r] = "rejected"
               /\ resp[r].status = 400
               /\ resp[r].content = NoPredictionsResponse

C2_Witness ==
    \E r \in Reqs :
        /\ endpoint[r] = "explain" /\ pc[r] = "failed"
        /\ exc[r] \in {"ExplanationError", "CombineError"}
        /\ predictions_response[r].requestId # NoId
        /\ resp[r].status = 500

\* C3: while handling /infer the explainer and the combine step are never
\* called, whether the request succeeds or fails.
C3_InferNeverExplains ==
    \A r \in Reqs :
        (endpoint[r] = "infer") =>
            /\ explainCalls[r] = 0
            /\ combineCalls[r] = 0
            /\ pc[r] \notin {"explaining", "explained", "composed"}

C3_Witness ==
    \E r, q \in Reqs :
        /\ endpoint[r] = "infer" /\ pc[r] = "responded" /\ tpCalls[r] = 1
        /\ endpoint[q] = "infer" /\ pc[q] = "failed"

\* C4: on /explain the explainer is called only after transform/predict of
\* the same request returned, with exactly the transformed features that
\* call returned; when transform or prediction raised it is never called.
C4_ExplainerAfterPrediction ==
    \A r \in Reqs :
        /\ (explainCalls[r] > 0) =>
              /\ endpoint[r] = "explain"
              /\ tpCalls[r] = 1
              /\ predictions_response[r].requestId # NoId
              /\ transformed_data[r] = Transform(body[r])
              /\ explainArg[r] = transformed_data[r]
              /\ exc[r] \notin {"IdentifierError", "TransformError", "PredictionError"}
        /\ (exc[r] \in {"IdentifierError", "TransformError", "PredictionError"}) =>
              explainCalls[r] = 0

C4_Witness ==
    \E r \in Reqs :
        /\ pc[r] = "explaining" /\ explainCalls[r] = 1
        /\ explainArg[r] # << >>

C6_BlockingCallOffLoopThread ==
    \A r, q \in Reqs :
        (/\ r # q
         /\ pc[r] \in {"awaiting", "explaining"}
         /\ pc[q] = "received") =>
            ENABLED (ping(q) \/ validation_exception_handler(q) \/ Identify(q))

\* C7: under every interleaving, the response or 500 detail of a request
\* carries that request's own requestId, its explainer receives its own
\* transformed features, and the explanations are merged into its own
\* predictions response; no two requests share a requestId.
C7_RequestOwnsItsData ==
    /\ \A r \in Reqs :
        /\ (tpCalls[r] > 0) => tpArgId[r] = request_id[r]
        /\ (resp[r].kind = "json") =>
              /\ resp[r].content.requestId = request_id[r]
              /\ resp[r].content.predictions = Predict(Transform(body[r]))
        /\ (resp[r].kind = "http_exception") =>
              resp[r].detail.requestId = request_id[r]
        /\ (explainCalls[r] > 0) => explainArg[r] = Transform(body[r])
        /\ (resp[r].content.merged) =>
              resp[r].content.explanations = Explanations(Transform(body[r]))
    /\ \A r, q \in Reqs :
        (r # q /\ request_id[r] # NoId) => request_id[r] # request_id[q]

C7_Witness ==
    \E r, q \in Reqs :
        /\ r # q
        /\ pc[r] = "awaiting"
        /\ request_id[q] > request_id[r]
        /\ pc[q] = "failed"
        /\ resp[q].kind = "http_exception"
        /\ body[q] # body[r]

\* C8: a /ping that was handled returned {"message": "Pong!"} with 200 and
\* never entered the pipeline, whatever the other requests and the sinks did.
C8_PingAlwaysPong ==
    \A r \in Reqs :
        (endpoint[r] = "ping") =>
            /\ pc[r] \in {"received", "responded"}
            /\ (pc[r] = "responded") => resp[r] = PingResponse
            /\ resp[r].status \in {0, 200}
            /\ request_id[r] = NoId
            /\ tpCalls[r] = 0 /\ explainCalls[r] = 0 /\ combineCalls[r] = 0
            /\ reports[r] = << >>

C8_Witness ==
    \E r, q \in Reqs :
        /\ endpoint[r] = "ping" /\ pc[r] = "responded"
        /\ resp[r].status = 200 /\ resp[r].kind = "pong"
        /\ sink = "failing"
        /\ pc[q] = "failed"

\* C9: transform/predict, the explainer and the combine step are each called
\* at most once per request, transform/predict exactly once for a request
\* that reached RESPONDED through a prediction route, and a call that raised
\* is not followed by another call of transform/predict or the explainer.
C9_NoRetries ==
    \A r \in Reqs :
        /\ tpCalls[r] <= 1 /\ explainCalls[r] <= 1 /\ combineCalls[r] <= 1
        /\ (pc[r] = "responded" /\ endpoint[r] # "ping") => tpCalls[r] = 1
        /\ (exc[r] = "IdentifierError") => tpCalls[r] = 0 /\ explainCalls[r] = 0
        /\ (exc[r] # "none") =>
              /\ pc[r] \in {"except", "failed"}
              /\ tpCalls[r] <= 1 /\ explainCalls[r] <= 1

C9_Witness ==
    \E r, q \in Reqs :
        /\ pc[r] = "failed" /\ exc[r] = "PredictionError" /\ tpCalls[r] = 1
        /\ pc[q] = "failed" /\ exc[q] = "ExplanationError"
        /\ tpCalls[q] = 1 /\ explainCalls[q] = 1

\* C10: a body that fails boundary validation is answered with 400 and
\* {status: error, message, predictions: null}, is reported to the general
\* log and to the error sink, and never enters the pipeline (no requestId,
\* no transform, predictor or explainer call); a failure raised inside the
\* pipeline is never answered with 400.
C10_ValidationFailureIs400 ==
    \A r \in Reqs :
        /\ (endpoint[r] \in {"infer", "explain"} /\ ~IsValidBody(body[r])) =>
              /\ pc[r] \in {"received", "rejected"}
              /\ request_id[r] = NoId
              /\ tpCalls[r] = 0 /\ explainCalls[r] = 0 /\ combineCalls[r] = 0
        /\ (pc[r] = "rejected") =>
              /\ resp[r].status = 400
              /\ resp[r].kind = "validation_error"
              /\ resp[r].content = NoPredictionsResponse
              /\ ReportedTo(r, NoId, "RequestValidationError")
        /\ (exc[r] # "none") => resp[r].status # 400
        /\ (resp[r].status = 400) => pc[r] = "rejected"

C10_Witness ==
    \E r, q \in Reqs :
        /\ pc[r] = "rejected" /\ resp[r].status = 400
        /\ Len(reports[r]) = 2
        /\ pc[q] = "failed" /\ resp[q].status = 500

\* C11: a request whose transformation step fails (a declared feature cannot
\* be resolved) is answered with HTTP 500 whose detail carries the request's
\* requestId and the original error text, and no predictions body.
C11_TransformFailureIs500WithId ==
    \A r \in Reqs :
        (pc[r] = "failed" /\ exc[r] = "TransformError") =>
            /\ endpoint[r] \in {"infer", "explain"}
            /\ resp[r].status = 500
            /\ resp[r].kind = "http_exception"
            /\ request_id[r] # NoId
            /\ resp[r].detail.requestId = request_id[r]
            /\ resp[r].detail.error = "TransformError"
            /\ resp[r].content = NoPredictionsResponse

C11_Witness ==
    \E r, q \in Reqs :
        /\ endpoint[r] = "infer" /\ endpoint[q] = "explain"
        /\ pc[r] = "failed" /\ exc[r] = "TransformError"
        /\ pc[q] = "failed" /\ exc[q] = "TransformError"
        /\ resp[r].kind = "http_exception" /\ resp[q].kind = "http_exception"

Pipeline(e) ==
    IF e = "infer"
    THEN <<"RECEIVED", "IDENTIFIED", "TRANSFORMED", "PREDICTED",
           "COMPOSED", "RESPONDED">>
    ELSE <<"RECEIVED", "IDENTIFIED", "TRANSFORMED", "PREDICTED",
           "EXPLAINED", "COMPOSED", "RESPONDED">>

IsPrefix(s, t) == Len(s) <= Len(t) /\ \A i \in 1..Len(s) : s[i] = t[i]

Last(s) == s[Len(s)]

\* C13: a request to /infer or /explain that reached RESPONDED passed
\* RECEIVED, IDENTIFIED, TRANSFORMED, PREDICTED, (EXPLAINED for /explain
\* only,) COMPOSED, RESPONDED in this order, each once and none skipped; at
\* every moment the stages passed are a prefix of that sequence, or a prefix
\* without RESPONDED followed by FAILED: a terminal stage is the last one,
\* only one of the two is reached and no stage follows it.
C13_StageOrder ==
    \A r \in Reqs :
        (endpoint[r] \in {"infer", "explain"}) =>
            LET full == Pipeline(endpoint[r])
                st == stages[r]
            IN  /\ (pc[r] = "responded") => (st = full /\ resp[r].status = 200)
                /\ \/ IsPrefix(st, full)
                   \/ /\ Len(st) >= 2
                      /\ Len(st) <= Len(full)
                      /\ Last(st) = "FAILED"
                      /\ IsPrefix(SubSeq(st, 1, Len(st) - 1), full)
                /\ (pc[r] \in {"except", "failed", "rejected"}) <=>
                      (Len(st) >= 2 /\ Last(st) = "FAILED")
                /\ (pc[r] = "responded") <=>
                      (Len(st) >= 2 /\ Last(st) = "RESPONDED")
                /\ (pc[r] \in {"failed", "rejected"}) => resp[r].status \in {400, 500}

C13_Witness ==
    \E r, q \in Reqs :
        /\ endpoint[r] = "explain" /\ pc[r] = "responded"
        /\ stages[r] = Pipeline("explain")
        /\ endpoint[q] = "infer" /\ pc[q] = "responded"
        /\ stages[q] = Pipeline("infer")

\* What the caller can observe of a response, request identifiers aside.
Observable(r) ==
    [status |-> resp[r].status, kind |-> resp[r].kind,
     predictions |-> resp[r].content.predictions,
     explanations |-> resp[r].content.explanations,
     error |-> resp[r].detail.error]

C15_FailureWrittenOnceToEachSink ==
    \A r \in Reqs :
        (pc[r] = "failed" /\ exc[r] \in PipelineErrors) =>
            /\ resp[r].status = 500
            /\ Len(reports[r]) = 2
            /\ reports[r][1].sink = "general"
            /\ reports[r][2].sink = "error_file"
            /\ \A i \in 1..2 :
                  /\ reports[r][i].op = OpName(endpoint[r])
                  /\ reports[r][i].requestId = request_id[r]
                  /\ reports[r][i].error = exc[r]

\* C16: on /explain the merge of predictions and explanations is called only
\* after the explainer returned its explanations; when the explainer raised
\* the merge is never called and the predictions response stays unmerged
\* and is not returned.
C16_MergeOnlyAfterExplainer ==
    \A r \in Reqs :
        /\ (combineCalls[r] > 0) =>
              /\ endpoint[r] = "explain"
              /\ explainCalls[r] = 1
              /\ exc[r] # "ExplanationError"
              /\ explanations[r] = Explanations(Transform(body[r]))
              /\ Len(explanations[r]) = Len(body[r])
        /\ (exc[r] = "ExplanationError") =>
              /\ combineCalls[r] = 0
              /\ ~predictions_response[r].merged
              /\ pc[r] \in {"except", "failed"}
              /\ resp[r].kind # "json"
              /\ resp[r].content = NoPredictionsResponse

C16_Witness ==
    \E r, q \in Reqs :
        /\ pc[r] = "failed" /\ exc[r] = "ExplanationError"
        /\ explainCalls[r] = 1 /\ combineCalls[r] = 0
        /\ predictions_response[r].requestId # NoId
        /\ pc[q] = "composed" /\ combineCalls[q] = 1

Accepted(r) == endpoint[r] \in {"infer", "explain"} /\ IsValidBody(body[r])

\* C17: under fair scheduling, and every stage call returning or raising,
\* every request accepted by /infer or /explain reaches a terminal state,
\* RESPONDED with 200 or FAILED with 500, whatever other requests are
\* interleaved with it: from some moment on every accepted request that was
\* sent is terminal, none stays in an intermediate stage.
C17_AcceptedRequestTerminates ==
    <>[](\A r \in Reqs :
            (pc[r] # "idle" /\ Accepted(r)) =>
                \/ pc[r] = "responded" /\ resp[r].status = 200
                \/ pc[r] = "failed" /\ resp[r].status = 500)

C17_Witness ==
    \E r, q \in Reqs :
        /\ Accepted(r) /\ Accepted(q)
        /\ request_id[r] # NoId /\ request_id[r] < request_id[q]
        /\ pc[q] = "failed" /\ resp[q].status = 500
        /\ pc[r] = "responded" /\ resp[r].status = 200
        /\ endpoint[r] = "explain"
====
